---- MODULE Spec2Model ----
(***************************************************************************)
(* naia-socket, server side: the WebRTC ServerSocket, its receive() loop   *)
(* and the MessageSender handles that feed its outbound queue.             *)
(*                                                                         *)
(*   server/src/impls/webrtc/server_socket.rs   ServerSocket, RtcServer    *)
(*   server/src/message_sender.rs               MessageSender              *)
(*                                                                         *)
(* One ServerSocket is modelled, from the state listen() leaves it in.     *)
(* receive() is an async fn: its await points (the select! over the two    *)
(* sources, and the adapter's send) are the positions of pc, and what      *)
(* other tasks do between them (MessageSender.send, drops, datagrams       *)
(* arriving) interleaves there.                                            *)
(***************************************************************************)
EXTENDS Naturals, Sequences, FiniteSets, TLC

\* ------------------------------------------------------------------ bounds
\* MessageSender.send calls made in one behaviour.
MaxEnq == 2
\* Results the adapter's recv has ready or has delivered in one behaviour.
MaxIn == 2
\* MessageSender handles alive at one time.
MaxSenders == 2

\* ------------------------------------------------------------------ values
\* Packet::new(address, payload): a Packet is the pair, and nothing else.
Packet_new(addr, bytes) == [address |-> addr, payload |-> bytes]

\* packet.address()
address(packet) == packet.address

\* packet.payload()
payload(packet) == packet.payload

\* The packets the application sends, and the messages peers send.
OutPackets == {Packet_new("A", <<1>>), Packet_new("B", <<2, 3>>)}

\* What RtcServer::recv resolves to: Ok(MessageResult) or Err(IoError).
RecvOk(addr, bytes) == [ok |-> TRUE, remote_addr |-> addr, message |-> bytes]
RecvErr == [ok |-> FALSE]
RecvResults == {RecvOk("A", <<7>>), RecvOk("B", <<8, 9>>), RecvErr}

\* The channels of the program. listen() makes one, mpsc::unbounded(), and
\* keeps both of its ends in the ServerSocket; "other" stands for any
\* channel that is not the socket's.
ChanIds == {"chan", "other"}

\* Mutant of to_client_sender: the socket keeps no sender of its own queue.
to_client_sender_elsewhere == "other"

\* let (to_client_sender, to_client_receiver) = mpsc::unbounded();
to_client_sender == "chan"
to_client_receiver == "chan"

\* (8000..9000).find(..): the first port probed, and the end of the range,
\* which is not probed.
ProbeFirst == 8000
ProbeEnd == 9000

\* A socket_address whose port is 0 asks the host to pick the port.
AutoAssign == 0

\* Option::None of get_available_port, and no port bound.
NoPort == 65536
NotProbed == 65537

\* The ports looked at: the two ends of the probed range and their
\* neighbours, one in between, and one of the host's ephemeral ports.
CandidatePorts == {7999, 8000, 8001, 8999, 9000, 49152}

\* The ports listen() is asked for.
RequestPorts == {AutoAssign, 8000, 8999}

NoPacket == [address |-> "-", payload |-> <<>>]
NoReturn == [kind |-> "None"]
\* The configuration of a socket that is not wrapped.
NoConfig == [loss |-> 0, latency |-> 0, reorder |-> FALSE]

\* Loss probabilities, in percent: never, one packet in two, always.
LossNever == 0
LossHalf == 50
LossAlways == 100

\* A latency that is not zero, in ticks of the clock.
SomeLatency == 1

NoCall == [queued |-> 0, attempted |-> 0, accepted |-> 0]

\* The values receive() returns.
RetOk(packet) == [kind |-> "Ok", packet |-> packet]
RetWrapped == [kind |-> "Wrapped"]
RetSendError(addr) == [kind |-> "SendError", address |-> addr]

VARIABLES
    socketAlive,  \* the ServerSocket has not been dropped
    chanBuf,      \* per channel: the messages sent and not yet received
    rxAlive,      \* per channel: its UnboundedReceiver has not been dropped
    handles,      \* per channel: the live MessageSenders whose internal is a sender of it
    rtcIn,        \* the results rtc_server.recv() will resolve to, oldest first
    pc,           \* receive(): "idle" (no call), "select", "sending", "panicked"
    cur,          \* the packet whose rtc_server.send is awaited
    nSendCalls,   \* history: MessageSender.send calls made
    lastSend,     \* history: what the latest MessageSender.send returned
    enqueued,     \* history: the packets unbounded_send accepted into the socket's queue
    attempts,     \* history: the <<payload, address>> handed to rtc_server.send
    sendRes,      \* history: what each completed rtc_server.send resolved to
    recvd,        \* history: what rtc_server.recv resolved to inside receive()
    retInbound,   \* history: the values receive() returned from the inbound branch
    retSend,      \* history: the values receive() returned from the outbound branch
    lastRet,      \* history: the value the latest receive() call returned
    callStart,    \* history: the queue and the counts as the running receive() call began (NoCall: none runs)
    listenPc,     \* listen(): "start", "binding" (RtcServer::new awaited), "bound", "done", "panicked"
    socket_address, \* listen()'s socket_address: the port asked for
    freePorts,    \* the local UDP ports that can be bound
    boundPort,    \* the port the adapter is bound to
    sessionStarted, \* start_session_server has been called
    probed,       \* what the latest get_available_port call returned
    lcPc,         \* the LinkConditioner: "none" (socket not wrapped), "idle", "polling", "inner" (the wrapped socket's receive() awaited)
    lcConfig,     \* the LinkConditioner's configuration
    lcHeld,       \* the packets the LinkConditioner holds, each with the time left to its release, in arrival order
    lcRet         \* history: the values the LinkConditioner's receive() returned

vars == <<socketAlive, chanBuf, rxAlive, handles, rtcIn, pc, cur, nSendCalls,
          lastSend, enqueued, attempts, sendRes, recvd, retInbound, retSend,
          lastRet, callStart, listenPc, socket_address, freePorts, boundPort,
          sessionStarted, probed, lcPc, lcConfig, lcHeld, lcRet>>

\* The state of listen() and of the host's ports.
lsn == <<listenPc, socket_address, freePorts, boundPort, sessionStarted,
         probed>>

\* The state of the link conditioner.
lc == <<lcPc, lcConfig, lcHeld, lcRet>>

\* What the socket's own operations leave alone.
outside == <<lsn, lc>>

\* What only the entry and the return of a receive() call write.
rest == <<callStart>>

hist == <<nSendCalls, lastSend, enqueued, attempts, sendRes, recvd,
          retInbound, retSend, lastRet>>

\* ------------------------------------------------------------- the channel
\* Mutant of NumSenders: the socket's own sender is not counted.
NumSendersHandlesOnly(c) == handles[c]

\* The senders of channel c: the MessageSenders, and the socket's own
\* to_client_sender field for as long as the socket lives.
NumSenders(c) ==
    handles[c] + (IF socketAlive /\ c = to_client_sender THEN 1 ELSE 0)

\* Mutant of UnboundedSendOk: a send succeeds whether or not the receiver lives.
UnboundedSendIgnoresClose(c) == TRUE

\* Mutant of UnboundedSendOk: a channel of capacity 1, full when a message waits.
UnboundedSendBounded(c) == rxAlive[c] /\ Len(chanBuf[c]) < 1

\* UnboundedSender::unbounded_send: the message is queued unless the
\* receiver is gone, and then the call fails.
UnboundedSendOk(c) == rxAlive[c]

\* Mutant of ReceiverNext: the newest message is taken, not the oldest.
ReceiverNextNewest(c) ==
    IF chanBuf[c] # <<>>
    THEN [st |-> "Some", packet |-> chanBuf[c][Len(chanBuf[c])]]
    ELSE IF NumSenders(c) = 0 THEN [st |-> "None"]
    ELSE [st |-> "Pending"]

\* UnboundedReceiver::next(): Some(head) when a message is queued, None when
\* the queue is empty and no sender is left, pending otherwise.
ReceiverNext(c) ==
    IF chanBuf[c] # <<>> THEN [st |-> "Some", packet |-> Head(chanBuf[c])]
    ELSE IF NumSenders(c) = 0 THEN [st |-> "None"]
    ELSE [st |-> "Pending"]

\* ------------------------------------------------------------------- Init
\* What listen() returns: a live socket holding both ends of an empty queue.
Init ==
    /\ socketAlive = TRUE
    /\ chanBuf = [c \in ChanIds |-> <<>>]
    /\ rxAlive = [c \in ChanIds |-> c = to_client_receiver]
    /\ handles = [c \in ChanIds |-> 0]
    /\ rtcIn = <<>>
    /\ pc = "idle"
    /\ cur = NoPacket
    /\ nSendCalls = 0
    /\ lastSend = "None"
    /\ enqueued = <<>>
    /\ attempts = <<>>
    /\ sendRes = <<>>
    /\ recvd = <<>>
    /\ retInbound = <<>>
    /\ retSend = <<>>
    /\ lastRet = NoReturn
    /\ callStart = NoCall
    /\ listenPc = "done"
    /\ socket_address = ProbeFirst
    /\ freePorts = {}
    /\ boundPort = ProbeFirst
    /\ sessionStarted = TRUE
    /\ probed = NotProbed
    /\ lcPc = "none"
    /\ lcConfig = NoConfig
    /\ lcHeld = <<>>
    /\ lcRet = <<>>

\* ---------------------------------------------------------- MessageSender
\* Mutant of get_sender: the handle is given a sender of a channel of its own.
get_sender_fresh == "other"

\* get_sender(): MessageSender::new(self.to_client_sender.clone()); the
\* channel the new handle's internal sender belongs to.
get_sender == to_client_sender

\* get_sender(&mut self) cannot run while a receive() future borrows the
\* socket.
GetSender ==
    /\ socketAlive
    /\ pc = "idle"
    /\ handles["chan"] + handles["other"] < MaxSenders
    /\ handles' = [handles EXCEPT ![get_sender] = @ + 1]
    /\ UNCHANGED <<socketAlive, chanBuf, rxAlive, rtcIn, pc, cur, hist>>
    /\ UNCHANGED rest
    /\ UNCHANGED outside

\* A MessageSender goes out of scope.
DropSender(c) ==
    /\ handles[c] > 0
    /\ handles' = [handles EXCEPT ![c] = @ - 1]
    /\ UNCHANGED <<socketAlive, chanBuf, rxAlive, rtcIn, pc, cur, hist>>
    /\ UNCHANGED rest
    /\ UNCHANGED outside

\* MessageSender::send(packet), on a handle of channel c:
\*   match self.internal.unbounded_send(packet) { Ok(c) => Ok(c), Err(e) => Err(Box::new(e)) }
Send(c, packet) ==
    /\ handles[c] > 0
    /\ nSendCalls < MaxEnq
    /\ nSendCalls' = nSendCalls + 1
    /\ IF UnboundedSendOk(c)
       THEN /\ chanBuf' = [chanBuf EXCEPT ![c] = Append(@, packet)]
            /\ lastSend' = "Ok"
            /\ enqueued' = IF c = to_client_receiver
                           THEN Append(enqueued, packet) ELSE enqueued
       ELSE /\ lastSend' = "Err"
            /\ UNCHANGED <<chanBuf, enqueued>>
    /\ UNCHANGED <<socketAlive, rxAlive, handles, rtcIn, pc, cur, attempts,
                   sendRes, recvd, retInbound, retSend, lastRet>>
    /\ UNCHANGED rest
    /\ UNCHANGED outside

\* ------------------------------------------------------------ the adapter
\* A datagram (or a transport failure) becomes ready in the adapter.
NetArrive(ev) ==
    /\ socketAlive
    /\ Len(recvd) + Len(rtcIn) < MaxIn
    /\ rtcIn' = Append(rtcIn, ev)
    /\ UNCHANGED <<socketAlive, chanBuf, rxAlive, handles, pc, cur, hist>>
    /\ UNCHANGED rest
    /\ UNCHANGED outside

\* ---------------------------------------------------------------- receive
\* receive() is called and runs to its select!.
ReceiveBegin ==
    /\ socketAlive
    /\ pc = "idle"
    /\ pc' = "select"
    /\ callStart' = [queued |-> Len(chanBuf[to_client_receiver]),
                     attempted |-> Len(attempts),
                     accepted |-> Len(enqueued)]
    /\ UNCHANGED <<socketAlive, chanBuf, rxAlive, handles, rtcIn, cur, hist>>

\* The application calls receive().
ReceiveCall ==
    /\ ReceiveBegin
    /\ UNCHANGED outside

\* Mutant of FromClientMessage: the payload is not copied into the packet.
FromClientMessageNoPayload(ev) ==
    IF ev.ok THEN RetOk(Packet_new(ev.remote_addr, <<>>))
    ELSE RetWrapped

\* Mutant of FromClientMessage: a failed recv is passed off as an empty packet.
FromClientMessageErrAsOk(ev) ==
    IF ev.ok THEN RetOk(Packet_new(ev.remote_addr, ev.message))
    ELSE RetOk(Packet_new("-", <<>>))

\* Next::FromClientMessage(..) and its match arm: the value returned for what
\* rtc_server.recv() resolved to.
FromClientMessage(ev) ==
    IF ev.ok THEN RetOk(Packet_new(ev.remote_addr, ev.message))
    ELSE RetWrapped

\* Mutant of FromClient: an inbound result is taken and the loop goes on
\* without returning it.
FromClientKeepsWaiting(track) ==
    /\ pc = "select"
    /\ rtcIn # <<>>
    /\ rtcIn' = Tail(rtcIn)
    /\ IF track
       THEN recvd' = Append(recvd, Head(rtcIn))
       ELSE UNCHANGED recvd
    /\ UNCHANGED <<socketAlive, chanBuf, rxAlive, handles, pc, cur, nSendCalls,
                   lastSend, enqueued, attempts, sendRes, retInbound, retSend,
                   lastRet, callStart>>
    /\ UNCHANGED outside

\* select! takes the from_client branch: recv() is ready. The call returns.
\* track: whether the histories of the inbound path are kept.
FromClient(track) ==
    /\ pc = "select"
    /\ rtcIn # <<>>
    /\ rtcIn' = Tail(rtcIn)
    /\ pc' = "idle"
    /\ lastRet' = FromClientMessage(Head(rtcIn))
    /\ IF track
       THEN /\ recvd' = Append(recvd, Head(rtcIn))
            /\ retInbound' = Append(retInbound, FromClientMessage(Head(rtcIn)))
       ELSE UNCHANGED <<recvd, retInbound>>
    /\ UNCHANGED <<socketAlive, chanBuf, rxAlive, handles, cur, nSendCalls,
                   lastSend, enqueued, attempts, sendRes, retSend>>
    /\ callStart' = IF pc' = "idle" THEN NoCall ELSE callStart
    /\ UNCHANGED outside

SelectFromClient == FromClient(TRUE)

\* Mutant of SelectToClient: a biased select, the to_client branch taken only
\* when recv() is not ready.
SelectToClientBiased ==
    /\ pc = "select"
    /\ rtcIn = <<>>
    /\ ReceiverNext(to_client_receiver).st = "Some"
    /\ chanBuf' = [chanBuf EXCEPT ![to_client_receiver] = Tail(@)]
    /\ cur' = ReceiverNext(to_client_receiver).packet
    /\ attempts' = Append(attempts,
           <<payload(ReceiverNext(to_client_receiver).packet),
             address(ReceiverNext(to_client_receiver).packet)>>)
    /\ pc' = "sending"
    /\ UNCHANGED <<socketAlive, rxAlive, handles, rtcIn, nSendCalls, lastSend,
                   enqueued, sendRes, recvd, retInbound, retSend, lastRet>>
    /\ UNCHANGED rest
    /\ UNCHANGED outside

\* Mutant of SelectToClient: the recv() future, dropped when the to_client
\* branch wins, takes the result that was ready with it.
SelectToClientLosesInbound ==
    /\ pc = "select"
    /\ ReceiverNext(to_client_receiver).st = "Some"
    /\ chanBuf' = [chanBuf EXCEPT ![to_client_receiver] = Tail(@)]
    /\ cur' = ReceiverNext(to_client_receiver).packet
    /\ attempts' = Append(attempts,
           <<payload(ReceiverNext(to_client_receiver).packet),
             address(ReceiverNext(to_client_receiver).packet)>>)
    /\ pc' = "sending"
    /\ rtcIn' = IF rtcIn = <<>> THEN rtcIn ELSE Tail(rtcIn)
    /\ UNCHANGED <<socketAlive, rxAlive, handles, nSendCalls, lastSend,
                   enqueued, sendRes, recvd, retInbound, retSend, lastRet>>
    /\ UNCHANGED rest
    /\ UNCHANGED outside

\* select! takes the to_client branch: to_client_receiver.next() is ready.
\* Some(packet) is dequeued and rtc_server.send(payload, Binary, &address) is
\* called and awaited; None is the expect("to server message receiver
\* closed") panic.
SelectToClient ==
    /\ pc = "select"
    /\ ReceiverNext(to_client_receiver).st # "Pending"
    /\ IF ReceiverNext(to_client_receiver).st = "Some"
       THEN /\ chanBuf' = [chanBuf EXCEPT ![to_client_receiver] = Tail(@)]
            /\ cur' = ReceiverNext(to_client_receiver).packet
            /\ attempts' = Append(attempts,
                   <<payload(ReceiverNext(to_client_receiver).packet),
                     address(ReceiverNext(to_client_receiver).packet)>>)
            /\ pc' = "sending"
       ELSE /\ pc' = "panicked"
            /\ UNCHANGED <<chanBuf, cur, attempts>>
    /\ UNCHANGED <<socketAlive, rxAlive, handles, rtcIn, nSendCalls, lastSend,
                   enqueued, sendRes, recvd, retInbound, retSend, lastRet>>
    /\ UNCHANGED rest
    /\ UNCHANGED outside

\* Mutant of AfterSend: the call returns after every send.
AfterSendAlwaysReturns(r) == "return"

\* Mutant of AfterSend: the result of the send is ignored.
AfterSendNeverReturns(r) == "loop"

\* What the loop does with the result r of the awaited rtc_server.send:
\* Err(_) => return Err(SendError(address)); _ => {} and the loop goes on.
AfterSend(r) == IF r = "Err" THEN "return" ELSE "loop"

\* Mutant of SendComplete: a successful send is returned to the caller as
\* Ok(the packet sent).
SendCompleteReturnsSent(r) ==
    /\ pc = "sending"
    /\ sendRes' = Append(sendRes, r)
    /\ cur' = NoPacket
    /\ pc' = "idle"
    /\ IF r = "Err"
       THEN /\ retSend' = Append(retSend, RetSendError(address(cur)))
            /\ lastRet' = RetSendError(address(cur))
       ELSE /\ lastRet' = RetOk(cur)
            /\ UNCHANGED retSend
    /\ UNCHANGED <<socketAlive, chanBuf, rxAlive, handles, rtcIn, nSendCalls,
                   lastSend, enqueued, attempts, recvd, retInbound>>
    /\ callStart' = IF pc' = "idle" THEN NoCall ELSE callStart
    /\ UNCHANGED outside

\* Mutant of SendComplete: a packet whose send failed is put back on the
\* queue to be tried again.
SendCompleteRetries(r) ==
    /\ pc = "sending"
    /\ sendRes' = Append(sendRes, r)
    /\ cur' = NoPacket
    /\ IF r = "Err"
       THEN /\ pc' = "idle"
            /\ retSend' = Append(retSend, RetSendError(address(cur)))
            /\ lastRet' = RetSendError(address(cur))
            /\ chanBuf' = [chanBuf EXCEPT ![to_client_receiver] = Append(@, cur)]
       ELSE /\ pc' = "select"
            /\ UNCHANGED <<retSend, lastRet, chanBuf>>
    /\ UNCHANGED <<socketAlive, rxAlive, handles, rtcIn, nSendCalls,
                   lastSend, enqueued, attempts, recvd, retInbound>>
    /\ callStart' = IF pc' = "idle" THEN NoCall ELSE callStart
    /\ UNCHANGED outside

\* rtc_server.send(..).await resolves to r.
SendComplete(r) ==
    /\ pc = "sending"
    /\ sendRes' = Append(sendRes, r)
    /\ cur' = NoPacket
    /\ IF AfterSend(r) = "return"
       THEN /\ pc' = "idle"
            /\ retSend' = Append(retSend, RetSendError(address(cur)))
            /\ lastRet' = RetSendError(address(cur))
       ELSE /\ pc' = "select"
            /\ UNCHANGED <<retSend, lastRet>>
    /\ UNCHANGED <<socketAlive, chanBuf, rxAlive, handles, rtcIn, nSendCalls,
                   lastSend, enqueued, attempts, recvd, retInbound>>
    /\ callStart' = IF pc' = "idle" THEN NoCall ELSE callStart
    /\ UNCHANGED outside

\* The ServerSocket is dropped, and its fields with it: the adapter, the
\* socket's own sender, and the receiver, whose drop closes the channel and
\* discards what is queued. No receive() future can be borrowing it.
DropSocket ==
    /\ socketAlive
    /\ pc = "idle"
    /\ socketAlive' = FALSE
    /\ rxAlive' = [rxAlive EXCEPT ![to_client_receiver] = FALSE]
    /\ chanBuf' = [chanBuf EXCEPT ![to_client_receiver] = <<>>]
    /\ rtcIn' = <<>>
    /\ UNCHANGED <<handles, pc, cur, hist>>
    /\ UNCHANGED rest
    /\ UNCHANGED outside

Next ==
    \/ GetSender
    \/ \E c \in ChanIds : DropSender(c)
    \/ \E c \in ChanIds, packet \in OutPackets : Send(c, packet)
    \/ \E ev \in RecvResults : NetArrive(ev)
    \/ ReceiveCall
    \/ SelectFromClient
    \/ SelectToClient
    \/ \E r \in {"Ok", "Err"} : SendComplete(r)
    \/ DropSocket

Spec == Init /\ [][Next]_vars

\* ------------------------------------------------------ the running socket
\* The socket is never dropped, the application calls receive() again after
\* every return, and inbound results keep becoming ready without end: one
\* is ready again whenever the adapter has none. The histories of the
\* inbound path, which would grow without bound, are not kept here.
NetArriveAgain(ev) ==
    /\ socketAlive
    /\ rtcIn = <<>>
    /\ rtcIn' = <<ev>>
    /\ UNCHANGED <<socketAlive, chanBuf, rxAlive, handles, pc, cur, hist>>
    /\ UNCHANGED rest
    /\ UNCHANGED outside

SelectFromClientAgain == FromClient(FALSE)

NextRunning ==
    \/ GetSender
    \/ \E c \in ChanIds : DropSender(c)
    \/ \E c \in ChanIds, packet \in OutPackets : Send(c, packet)
    \/ \E ev \in RecvResults : NetArriveAgain(ev)
    \/ ReceiveCall
    \/ SelectFromClientAgain
    \/ SelectToClient
    \/ \E r \in {"Ok", "Err"} : SendComplete(r)

\* Fairness: the application calls receive() whenever no call is running
\* (WF); an awaited rtc_server.send resolves (WF); select!, which polls
\* its ready branches in a pseudo-random order, takes the to_client branch
\* at some time if that branch is ready again and again (SF); and a select
\* whose recv() stays ready does not wait for ever (WF).
SpecRunning ==
    /\ Init
    /\ [][NextRunning]_vars
    /\ WF_vars(ReceiveCall)
    /\ WF_vars(\E r \in {"Ok", "Err"} : SendComplete(r))
    /\ SF_vars(SelectToClient)
    /\ WF_vars(SelectFromClientAgain)

\* ------------------------------------------------------- derived sequences
IsPrefix(s, t) ==
    /\ Len(s) <= Len(t)
    /\ \A i \in 1..Len(s) : s[i] = t[i]

\* The <<payload, address>> pairs of a sequence of packets.
AsAttempts(packets) ==
    [i \in 1..Len(packets) |-> <<packets[i].payload, packets[i].address>>]

\* The packet an Ok result of the adapter's recv carries.
InboundPacket(ev) == [address |-> ev.remote_addr, payload |-> ev.message]

IsOkEvent(ev) == ev.ok
IsOkReturn(r) == r.kind = "Ok"

\* ------------------------------------------------------------------ listen
\* listen() taken from its call: no socket yet, no channel, nothing bound.
\* The port asked for and the ports that are free are the inputs.
InitListen ==
    /\ socketAlive = FALSE
    /\ chanBuf = [c \in ChanIds |-> <<>>]
    /\ rxAlive = [c \in ChanIds |-> FALSE]
    /\ handles = [c \in ChanIds |-> 0]
    /\ rtcIn = <<>>
    /\ pc = "idle"
    /\ cur = NoPacket
    /\ nSendCalls = 0
    /\ lastSend = "None"
    /\ enqueued = <<>>
    /\ attempts = <<>>
    /\ sendRes = <<>>
    /\ recvd = <<>>
    /\ retInbound = <<>>
    /\ retSend = <<>>
    /\ lastRet = NoReturn
    /\ callStart = NoCall
    /\ listenPc = "start"
    /\ socket_address \in RequestPorts
    /\ freePorts \in SUBSET CandidatePorts
    /\ boundPort = NoPort
    /\ sessionStarted = FALSE
    /\ probed = NotProbed
    /\ lcPc = "none"
    /\ lcConfig = NoConfig
    /\ lcHeld = <<>>
    /\ lcRet = <<>>

\* port_is_available(ip, port): UdpSocket::bind((ip, port)) succeeded; the
\* socket bound is dropped at once, so the port is free again.
port_is_available(port) == port \in freePorts

\* Iterator::find over start..end: the first port of the range, in ascending
\* order, that the predicate accepts; None if it accepts none.
FindPort(start, end) ==
    IF \E p \in start..(end - 1) : port_is_available(p)
    THEN CHOOSE p \in start..(end - 1) :
             /\ port_is_available(p)
             /\ \A q \in start..(p - 1) : ~port_is_available(q)
    ELSE NoPort

\* get_available_port(ip): (8000..9000).find(|port| port_is_available(ip, *port))
get_available_port == FindPort(ProbeFirst, ProbeEnd)

\* A call of get_available_port. Nothing in src/ calls it.
ProbePort ==
    /\ probed' = get_available_port
    /\ probed' # probed
    /\ UNCHANGED <<socketAlive, chanBuf, rxAlive, handles, rtcIn, pc, cur,
                   hist, rest, listenPc, socket_address, freePorts, boundPort,
                   sessionStarted>>
    /\ UNCHANGED lc

\* The ports InnerRtcServer::new(address, ..) may end bound to: the port
\* asked for if it is free, any free port if the host is to pick one; none
\* is the failure that .expect("could not start RTC server") panics on.
BindOutcomes(port) ==
    IF port = AutoAssign THEN freePorts ELSE {port} \cap freePorts

\* Mutant of ListenBegin: the session service is started first, before the
\* adapter is made.
ListenBeginStartsSession ==
    /\ listenPc = "start"
    /\ rxAlive' = [rxAlive EXCEPT ![to_client_receiver] = TRUE]
    /\ sessionStarted' = TRUE
    /\ listenPc' = "binding"
    /\ UNCHANGED <<socketAlive, chanBuf, handles, rtcIn, pc, cur, hist, rest,
                   socket_address, freePorts, boundPort, probed>>
    /\ UNCHANGED lc

\* listen(), to its await: the channel is made, RtcServer::new is called.
ListenBegin ==
    /\ listenPc = "start"
    /\ rxAlive' = [rxAlive EXCEPT ![to_client_receiver] = TRUE]
    /\ listenPc' = "binding"
    /\ UNCHANGED <<socketAlive, chanBuf, handles, rtcIn, pc, cur, hist, rest,
                   socket_address, freePorts, boundPort, sessionStarted,
                   probed>>
    /\ UNCHANGED lc

\* RtcServer::new(..).await resolves: the adapter bound to port, or the
\* expect() panic, which unwinds listen() and drops the channel.
RtcServerNew ==
    /\ listenPc = "binding"
    /\ IF BindOutcomes(socket_address) = {}
       THEN /\ listenPc' = "panicked"
            /\ rxAlive' = [rxAlive EXCEPT ![to_client_receiver] = FALSE]
            /\ UNCHANGED <<boundPort, freePorts>>
       ELSE /\ \E port \in BindOutcomes(socket_address) :
                   /\ boundPort' = port
                   /\ freePorts' = freePorts \ {port}
            /\ listenPc' = "bound"
            /\ UNCHANGED rxAlive
    /\ UNCHANGED <<socketAlive, chanBuf, handles, rtcIn, pc, cur, hist, rest,
                   socket_address, sessionStarted, probed>>
    /\ UNCHANGED lc

\* The rest of listen(): the ServerSocket is put together,
\* start_session_server is called with its endpoint, the socket is returned.
ListenFinish ==
    /\ listenPc = "bound"
    /\ sessionStarted' = TRUE
    /\ socketAlive' = TRUE
    /\ listenPc' = "done"
    /\ UNCHANGED <<chanBuf, rxAlive, handles, rtcIn, pc, cur, hist, rest,
                   socket_address, freePorts, boundPort, probed>>
    /\ UNCHANGED lc

NextListen ==
    \/ ListenBegin
    \/ RtcServerNew
    \/ ListenFinish
    \/ ProbePort

SpecListen == InitListen /\ [][NextListen]_vars

\* ------------------------------------------------------ the link conditioner
\* The configurations a socket is wrapped with. Reordering is asked for
\* only together with a latency: without one nothing is held to reorder.
Configs ==
    {c \in [loss : {LossNever, LossHalf, LossAlways},
            latency : {0, SomeLatency}, reorder : BOOLEAN] :
        c.reorder => c.latency > 0}

\* with_link_conditioner(self: Box<Self>, config):
\*   Box::new(LinkConditioner::new(config, self))
\* The socket is consumed: no receive() call of it can be running, and from
\* here on only the conditioner calls it.
WithLinkConditioner(config) ==
    /\ socketAlive
    /\ lcPc = "none"
    /\ pc = "idle"
    /\ lcPc' = "idle"
    /\ lcConfig' = config
    /\ UNCHANGED <<socketAlive, chanBuf, rxAlive, handles, rtcIn, pc, cur,
                   hist, rest, lsn, lcHeld, lcRet>>

\* get_sender() of the socket, or of the conditioner, which hands out the
\* wrapped socket's; not while a receive() of the conditioner runs. The
\* application asks for its sender once.
LcGetSender ==
    /\ lcPc \in {"none", "idle"}
    /\ handles[get_sender] = 0
    /\ GetSender

\* The packet the application sends through a conditioned socket.
LcOutPacket == Packet_new("A", <<1>>)

\* Time passes, by one tick: what is held is one tick nearer its release.
\* The conditioner reads the time only against the release times of what it
\* holds, so time is kept as the ticks left to each release.
Tick ==
    /\ \E i \in 1..Len(lcHeld) : lcHeld[i].wait > 0
    /\ lcHeld' = [i \in 1..Len(lcHeld) |->
                     [lcHeld[i] EXCEPT !.wait = IF @ > 0 THEN @ - 1 ELSE 0]]
    /\ UNCHANGED <<socketAlive, chanBuf, rxAlive, handles, rtcIn, pc, cur,
                   hist, rest, lsn, lcPc, lcConfig, lcRet>>

\* The application calls receive() of the conditioner.
LcReceiveCall ==
    /\ lcPc = "idle"
    /\ lcPc' = "polling"
    /\ UNCHANGED <<socketAlive, chanBuf, rxAlive, handles, rtcIn, pc, cur,
                   hist, rest, lsn, lcConfig, lcHeld, lcRet>>

\* The held packets that may be released: those whose release time has
\* come, and without reordering only the one that arrived first.
Releasable ==
    LET due == {i \in 1..Len(lcHeld) : lcHeld[i].wait = 0}
    IN  IF lcConfig.reorder THEN due
        ELSE {i \in due : \A j \in 1..(i - 1) : j \notin due}

\* s without its i-th element.
RemoveAt(s, i) == SubSeq(s, 1, i - 1) \o SubSeq(s, i + 1, Len(s))

\* The conditioner is polled and a held packet is due: it is returned.
LcRelease ==
    /\ lcPc = "polling"
    /\ \E i \in Releasable :
           /\ lcRet' = Append(lcRet, RetOk(lcHeld[i].packet))
           /\ lcHeld' = RemoveAt(lcHeld, i)
    /\ lcPc' = "idle"
    /\ UNCHANGED <<socketAlive, chanBuf, rxAlive, handles, rtcIn, pc, cur,
                   hist, rest, lsn, lcConfig>>

\* The conditioner is polled and nothing held is due: it calls receive() of
\* the wrapped socket.
LcCallInner ==
    /\ lcPc = "polling"
    /\ Releasable = {}
    /\ ReceiveBegin
    /\ lcPc' = "inner"
    /\ UNCHANGED <<lsn, lcConfig, lcHeld, lcRet>>

\* Mutant of MayDrop: a packet may be dropped under any loss probability.
MayDropAlways(loss) == TRUE

\* Whether a packet may be dropped under a loss probability: not at 0.
MayDrop(loss) == loss > LossNever

\* Mutant of MayKeep: a packet may be kept under any loss probability.
MayKeepAlways(loss) == TRUE

\* Whether a packet may be kept under a loss probability: not at 1.
MayKeep(loss) == loss < LossAlways

\* receive() of the wrapped socket has returned. An error is returned as
\* it is. A packet is dropped, or held for the latency, and the
\* conditioner polls again.
LcInnerReturned ==
    /\ lcPc = "inner"
    /\ pc = "idle"
    /\ IF IsOkReturn(lastRet)
       THEN /\ lcPc' = "polling"
            /\ \/ /\ MayDrop(lcConfig.loss)
                  /\ UNCHANGED lcHeld
               \/ /\ MayKeep(lcConfig.loss)
                  /\ lcHeld' = Append(lcHeld,
                         [packet |-> lastRet.packet,
                          wait |-> lcConfig.latency])
            /\ UNCHANGED lcRet
       ELSE /\ lcPc' = "idle"
            /\ lcRet' = Append(lcRet, lastRet)
            /\ UNCHANGED lcHeld
    /\ UNCHANGED <<socketAlive, chanBuf, rxAlive, handles, rtcIn, pc, cur,
                   hist, rest, lsn, lcConfig>>

NextConditioned ==
    \/ \E config \in Configs : WithLinkConditioner(config)
    \/ LcGetSender
    \/ Send(get_sender, LcOutPacket)
    \/ \E ev \in RecvResults : NetArrive(ev)
    \/ Tick
    \/ LcReceiveCall
    \/ LcRelease
    \/ LcCallInner
    \/ SelectFromClient
    \/ SelectToClient
    \/ \E r \in {"Ok", "Err"} : SendComplete(r)
    \/ LcInnerReturned

SpecConditioned == Init /\ [][NextConditioned]_vars

\* ---------------------------------------------------------------------- C1
\* C1: the <<payload, address>> pairs handed to the adapter's send are, in
\* order, a prefix of the packets accepted into the outbound queue: no packet
\* is attempted twice, none out of order, none that was not enqueued.
C1_AttemptsArePrefixOfEnqueued == IsPrefix(attempts, AsAttempts(enqueued))

\* Two different packets were enqueued and both were attempted.
C1_Witness ==
    /\ Len(attempts) = 2
    /\ attempts[1] # attempts[2]
    /\ Len(enqueued) = 2

\* ---------------------------------------------------------------------- C2
\* C2: the step in which the adapter's send succeeds returns nothing from
\* receive(): no value is recorded as returned, and the call is back at its
\* select, waiting for the next event.
C2_SuccessfulSendDoesNotReturn ==
    [][(pc = "sending" /\ sendRes' = Append(sendRes, "Ok"))
         => /\ pc' = "select"
            /\ lastRet' = lastRet
            /\ retSend' = retSend
            /\ retInbound' = retInbound]_vars

\* A send has succeeded inside a receive() call that is still waiting, and no
\* receive() call has returned anything yet.
C2_Witness ==
    /\ pc = "select"
    /\ sendRes = <<"Ok">>
    /\ lastRet = NoReturn

\* ---------------------------------------------------------------------- C3
RECURSIVE SendErrorsOf(_)
\* The SendError values owed for the first k completed sends, in order.
SendErrorsOf(k) ==
    IF k = 0 THEN <<>>
    ELSE IF sendRes[k] = "Err"
         THEN Append(SendErrorsOf(k - 1), RetSendError(attempts[k][2]))
         ELSE SendErrorsOf(k - 1)

\* C3: the errors receive() has returned from the outbound branch are exactly
\* one SendError per failed send, naming that packet's address, in the order
\* of the failures (none twice, none missing); the step that returns one
\* leaves the pending inbound results and the socket as they were; and an Ok
\* result taken from the adapter after such an error is returned as Ok.
C3_OneErrorPerFailedSend ==
    /\ [](retSend = SendErrorsOf(Len(sendRes)))
    /\ [][(pc = "sending" /\ sendRes' = Append(sendRes, "Err"))
            => /\ pc' = "idle"
               /\ lastRet' = RetSendError(cur.address)
               /\ rtcIn' = rtcIn
               /\ socketAlive' = socketAlive]_vars
    /\ [][(retSend # <<>> /\ pc = "select" /\ rtcIn # <<>> /\ Head(rtcIn).ok
           /\ recvd' # recvd)
            => lastRet' = RetOk(InboundPacket(Head(rtcIn)))]_vars

\* A send to B has failed and was reported once, and the latest receive()
\* call returned an inbound packet.
C3_Witness ==
    /\ retSend = <<RetSendError("B")>>
    /\ lastRet.kind = "Ok"
    /\ pc = "idle"

\* ---------------------------------------------------------------------- C4
\* A value receive() may return: Ok of a packet the adapter's recv delivered,
\* an error for a failure recv delivered, or a SendError for a failed send.
ValidReturn(r) ==
    \/ /\ r.kind = "Ok"
       /\ \E i \in 1..Len(recvd) :
              recvd[i].ok /\ r.packet = InboundPacket(recvd[i])
       /\ \A i \in 1..Len(enqueued) : enqueued[i] # r.packet
    \/ /\ r.kind = "Wrapped"
       /\ \E i \in 1..Len(recvd) : ~recvd[i].ok
    \/ /\ r.kind = "SendError"
       /\ \E i \in 1..Len(sendRes) :
              sendRes[i] = "Err" /\ attempts[i][2] = r.address

\* C4: every value receive() has returned is Ok of an inbound packet that the
\* adapter's recv delivered (never a packet a MessageSender enqueued), or an
\* error with its cause: a failed recv, or a failed send to that address.
C4_ReturnsAreInboundOrError ==
    /\ lastRet = NoReturn \/ ValidReturn(lastRet)
    /\ \A i \in 1..Len(retInbound) : ValidReturn(retInbound[i])
    /\ \A i \in 1..Len(retSend) : ValidReturn(retSend[i])
    /\ (lastRet = NoReturn) = (retInbound = <<>> /\ retSend = <<>>)

\* receive() returned an inbound packet after sends had succeeded and failed.
C4_Witness ==
    /\ lastRet.kind = "Ok"
    /\ "Ok" \in {sendRes[i] : i \in 1..Len(sendRes)}
    /\ "Err" \in {sendRes[i] : i \in 1..Len(sendRes)}

\* ---------------------------------------------------------------------- C5
\* C5: a MessageSender.send made once the socket is dropped returns Err,
\* whichever handle it is made on.
C5_SendAfterDropFails ==
    [][(~socketAlive /\ nSendCalls' # nSendCalls) => lastSend' = "Err"]_vars

\* Two handles outlive the socket, and a send on one returned Err after a
\* send had returned Ok while the socket lived.
C5_Witness ==
    /\ ~socketAlive
    /\ handles[to_client_sender] = 2
    /\ enqueued # <<>>
    /\ lastSend = "Err"

\* ---------------------------------------------------------------------- C6
\* C6: while the socket lives, every MessageSender.send returns Ok and puts
\* its packet at the back of the outbound queue, whatever the queue holds;
\* and a send that returns Err was made with the socket dropped.
C6_SendSucceedsWhileSocketLives ==
    [][(nSendCalls' # nSendCalls)
         => /\ socketAlive
                => /\ lastSend' = "Ok"
                   /\ \E packet \in OutPackets :
                          chanBuf'[to_client_receiver]
                              = Append(chanBuf[to_client_receiver], packet)
            /\ lastSend' = "Err" => ~socketAlive]_vars

\* With two handles alive, a send returned Ok on a queue already holding a
\* packet.
C6_Witness ==
    /\ socketAlive
    /\ handles[to_client_sender] = 2
    /\ Len(chanBuf[to_client_receiver]) = 2
    /\ lastSend = "Ok"

\* ---------------------------------------------------------------------- C7
\* C7: every MessageSender is a sender of the one channel the socket
\* receives from, and while the socket lives every packet a send accepted is
\* either waiting in that queue or was handed to this socket's adapter, in
\* the order accepted; nothing went to another channel.
C7_HandlesShareTheSocketsQueue ==
    /\ \A c \in ChanIds : handles[c] > 0 => c = to_client_receiver
    /\ \A c \in ChanIds : c # to_client_receiver => chanBuf[c] = <<>>
    /\ lastSend = "Ok" => enqueued # <<>>
    /\ socketAlive =>
           AsAttempts(enqueued)
               = attempts \o AsAttempts(chanBuf[to_client_receiver])

\* Two handles are alive and packets sent through them were attempted.
C7_Witness ==
    /\ handles[to_client_sender] = 2
    /\ Len(attempts) = 2

\* ---------------------------------------------------------------------- C8
\* C8: in the running socket, the k-th packet a MessageSender.send accepted
\* is at some later time the k-th one handed to the adapter's send, also
\* when an inbound result is ready at every select.
C8_EnqueuedIsEventuallyAttempted ==
    \A k \in 1..MaxEnq :
        (Len(enqueued) >= k)
            ~> (/\ Len(attempts) >= k
                /\ attempts[k] = <<enqueued[k].payload, enqueued[k].address>>)

\* Both packets accepted were attempted while inbound results were returned
\* and another one is ready.
C8_Witness ==
    /\ Len(attempts) = MaxEnq
    /\ lastRet.kind = "Ok"
    /\ rtcIn # <<>>

\* ---------------------------------------------------------------------- C9
NoMessageSender == \A c \in ChanIds : handles[c] = 0

C10_InboundReturnedInOrder ==
    LET oks == SelectSeq(recvd, IsOkEvent)
        rets == SelectSeq(retInbound, IsOkReturn)
    IN  /\ Len(rets) = Len(oks)
        /\ \A i \in 1..Len(oks) :
               /\ rets[i].packet.address = oks[i].remote_addr
               /\ rets[i].packet.payload = oks[i].message
        /\ Len(retInbound) = Len(recvd)

\* Two different inbound packets were returned by calls that also drained
\* the outbound queue.
C10_Witness ==
    /\ Len(SelectSeq(retInbound, IsOkReturn)) = 2
    /\ retInbound[1] # retInbound[2]
    /\ attempts # <<>>

\* --------------------------------------------------------------------- C11
\* The packets fed to the wrapped socket: the Ok results its adapter's recv
\* delivered, as receive() returns them.
FedPackets ==
    LET oks == SelectSeq(recvd, IsOkEvent)
    IN  [i \in 1..Len(oks) |-> RetOk(InboundPacket(oks[i]))]

IsInboundReturn(r) == r.kind # "SendError"
IsWrapped(r) == r.kind = "Wrapped"
IsSendError(r) == r.kind = "SendError"

\* C11: with loss probability 0 and zero latency the conditioner's receive()
\* returns the packets fed to the wrapped socket, the same packets in arrival
\* order: all of them between calls, all but at most the one in hand during
\* a call; and what it returns from the inbound path is what the wrapped
\* socket returned.
C11_TransparentWithoutLossAndLatency ==
    (lcPc # "none" /\ lcConfig.loss = LossNever /\ lcConfig.latency = 0)
        => LET out == SelectSeq(lcRet, IsOkReturn)
           IN  /\ IsPrefix(out, FedPackets)
               /\ Len(FedPackets) - Len(out) <= 1
               /\ IsPrefix(SelectSeq(lcRet, IsInboundReturn), retInbound)
               /\ lcPc = "idle"
                      => /\ out = FedPackets
                         /\ SelectSeq(lcRet, IsInboundReturn) = retInbound

\* A conditioner without loss and latency has returned two different
\* packets.
C11_Witness ==
    /\ lcPc = "idle"
    /\ lcConfig.loss = LossNever
    /\ lcConfig.latency = 0
    /\ Len(SelectSeq(lcRet, IsOkReturn)) = 2
    /\ lcRet[1] # lcRet[2]
    /\ FedPackets = lcRet

\* --------------------------------------------------------------------- C12
\* C12 as stated: with loss probability 1 the conditioner's receive() returns
\* nothing but errors of the outbound path.
C12_Original ==
    (lcPc # "none" /\ lcConfig.loss = LossAlways)
        => \A i \in 1..Len(lcRet) : lcRet[i].kind = "SendError"

\* C12: with loss probability 1 the conditioner's receive() never returns a
\* packet and holds none; what it returns are errors the wrapped socket
\* returned: failed sends and failed receives of the adapter.
C12_LossOneReturnsOnlyErrors ==
    (lcPc # "none" /\ lcConfig.loss = LossAlways)
        => /\ \A i \in 1..Len(lcRet) : ~IsOkReturn(lcRet[i])
           /\ lcHeld = <<>>
           /\ IsPrefix(SelectSeq(lcRet, IsWrapped),
                       SelectSeq(retInbound, IsWrapped))
           /\ IsPrefix(SelectSeq(lcRet, IsSendError), retSend)
           /\ lcPc = "idle"
                  => /\ SelectSeq(lcRet, IsWrapped)
                            = SelectSeq(retInbound, IsWrapped)
                     /\ SelectSeq(lcRet, IsSendError) = retSend

\* A conditioner that loses every packet was fed a packet and has returned
\* a failed receive of the adapter.
C12_Witness ==
    /\ lcPc = "idle"
    /\ lcConfig.loss = LossAlways
    /\ FedPackets # <<>>
    /\ \E i \in 1..Len(lcRet) : lcRet[i] = RetWrapped

\* --------------------------------------------------------------------- C13
\* C13: a socket bound with an auto-assign address is bound to the first free
\* port of 8000..9000 in ascending order: the bound port lies in that range
\* and no free port of the range below it was passed over.
C13_Original ==
    (listenPc = "done" /\ socket_address = AutoAssign)
        => /\ boundPort \in ProbeFirst..(ProbeEnd - 1)
           /\ \A q \in ProbeFirst..(boundPort - 1) : ~port_is_available(q)

\* --------------------------------------------------------------------- C14
\* C14: the step in which a send fails puts nothing back on the queue and
\* attempts nothing; and whatever sends have failed, the packets attempted
\* and the packets still queued are together the packets accepted, each
\* once, in the order accepted.
C14_FailedSendIsNotRetried ==
    /\ [][(pc = "sending" /\ sendRes' = Append(sendRes, "Err"))
            => /\ chanBuf' = chanBuf
               /\ attempts' = attempts
               /\ enqueued' = enqueued]_vars
    /\ []((socketAlive /\ "Err" \in {sendRes[i] : i \in 1..Len(sendRes)})
            => /\ Len(attempts) + Len(chanBuf[to_client_receiver])
                   = Len(enqueued)
               /\ \A i \in 1..Len(chanBuf[to_client_receiver]) :
                      chanBuf[to_client_receiver][i]
                          = enqueued[Len(attempts) + i]
               /\ \A i \in 1..Len(attempts) :
                      attempts[i]
                          = <<enqueued[i].payload, enqueued[i].address>>)

\* The first send failed and was reported; the packet queued behind it was
\* attempted by a later call.
C14_Witness ==
    /\ Len(sendRes) = 2
    /\ sendRes[1] = "Err"
    /\ Len(attempts) = 2
    /\ attempts[1] # attempts[2]

\* --------------------------------------------------------------------- C15
\* C15: the step in which the adapter's recv fails returns that failure as
\* the Wrapped error, leaves the outbound queue as it was, and leaves the
\* socket alive with no call running; every failed recv is in the record of
\* what receive() returned, as an error.
C15_RecvFailureIsReturned ==
    /\ [][(pc = "select" /\ rtcIn # <<>> /\ ~Head(rtcIn).ok
           /\ rtcIn' = Tail(rtcIn))
            => /\ lastRet' = RetWrapped
               /\ pc' = "idle"
               /\ chanBuf' = chanBuf
               /\ attempts' = attempts
               /\ socketAlive']_vars
    /\ [](/\ Len(retInbound) = Len(recvd)
          /\ \A i \in 1..Len(recvd) :
                 ~recvd[i].ok => retInbound[i].kind = "Wrapped")

\* A recv failure was returned while a packet stayed queued; later calls
\* attempted that packet and returned an inbound packet.
C15_Witness ==
    /\ Len(retInbound) = 2
    /\ retInbound[1].kind = "Wrapped"
    /\ retInbound[2].kind = "Ok"
    /\ attempts # <<>>

\* --------------------------------------------------------------------- C16
\* C16: whenever a receive() call is at its select with an inbound result
\* ready and a packet queued, both branches can be taken: neither source has
\* priority.
C16_NeitherSourceHasPriority ==
    (pc = "select" /\ rtcIn # <<>> /\ chanBuf[to_client_receiver] # <<>>)
        => (ENABLED SelectFromClient /\ ENABLED SelectToClient)

\* A call is at its select with an inbound result ready and a packet queued.
C16_Witness ==
    /\ pc = "select"
    /\ rtcIn # <<>>
    /\ chanBuf[to_client_receiver] # <<>>

\* --------------------------------------------------------------------- C17
\* C17: the session service is started only once the adapter is bound, and
\* a listen() whose adapter could not be bound stays without a socket and
\* without a session service.
C17_SessionStartsOnlyAfterAdapter ==
    /\ [](sessionStarted => (boundPort # NoPort /\ listenPc = "done"))
    /\ [](socketAlive => (boundPort # NoPort /\ sessionStarted))
    /\ [](listenPc = "panicked"
            => (~socketAlive /\ ~sessionStarted /\ boundPort = NoPort))
    /\ [][listenPc = "panicked"
            => (listenPc' = "panicked" /\ ~socketAlive' /\ ~sessionStarted')]_vars
    /\ [][(listenPc = "binding" /\ BindOutcomes(socket_address) = {})
            => listenPc' \in {"binding", "panicked"}]_vars

\* listen() was asked for a port that is taken, while other ports are free,
\* and has panicked.
C17_Witness ==
    /\ listenPc = "panicked"
    /\ socket_address # AutoAssign
    /\ freePorts # {}
    /\ ~port_is_available(socket_address)

\* --------------------------------------------------------------------- C18
\* C18: while the socket lives its own to_client_sender is a sender of the
\* queue it receives from, so that queue has a live sender whatever handles
\* were dropped; and receive() never panics on a closed queue.
C18_SocketKeepsItsOwnSender ==
    /\ socketAlive =>
           /\ to_client_sender = to_client_receiver
           /\ NumSenders(to_client_receiver) >= 1
           /\ NumSenders(to_client_receiver) = handles[to_client_receiver] + 1
    /\ pc # "panicked"

\* Every handle is dropped after two packets were sent, both were attempted,
\* and receive() waits on the empty queue.
C18_Witness ==
    /\ socketAlive
    /\ NoMessageSender
    /\ Len(attempts) = 2
    /\ pc = "select"
    /\ ReceiverNext(to_client_receiver).st = "Pending"

\* --------------------------------------------------------------------- C19
\* C19: a step of the outbound branch (a packet dequeued and handed to the
\* adapter, or its send resolving) leaves the pending inbound results as they
\* were and delivers none; a step that returns an inbound packet or an
\* inbound error leaves the outbound queue and the attempts as they were.
C19_BranchesLeaveEachOtherAlone ==
    /\ [][(attempts' # attempts \/ sendRes' # sendRes)
            => /\ rtcIn' = rtcIn
               /\ recvd' = recvd
               /\ retInbound' = retInbound]_vars
    /\ [][(recvd' # recvd)
            => /\ chanBuf' = chanBuf
               /\ attempts' = attempts
               /\ sendRes' = sendRes
               /\ retSend' = retSend]_vars

\* A packet was drained while an inbound result was ready, and the result
\* is still there; no inbound result has been delivered.
C19_Witness ==
    /\ sendRes # <<>>
    /\ Len(rtcIn) = 2
    /\ recvd = <<>>

\* --------------------------------------------------------------------- C20
InCall == pc = "select" \/ pc = "sending"

\* C20: in the running socket, a receive() call that has seen no packet
\* accepted since it began has made no more send attempts than the queue
\* held when it began; a call at its select with an inbound result ready
\* returns; and a call returns only in a step that takes an inbound result
\* or in which a send fails, so with neither it never returns.
C20_CallReturnsWithinQueueLength ==
    /\ []((InCall /\ Len(enqueued) = callStart.accepted)
            => Len(attempts) - callStart.attempted <= callStart.queued)
    /\ [](InCall => Len(attempts) >= callStart.attempted)
    /\ ((pc = "select" /\ rtcIn # <<>>) ~> (pc = "idle"))
    /\ [][(InCall /\ pc' = "idle")
            => (rtcIn' # rtcIn \/ sendRes' = Append(sendRes, "Err"))]_vars

\* A call that began with two packets queued and an inbound result ready has
\* made both send attempts, both succeeded, and it is back at its select.
C20_Witness ==
    /\ pc = "select"
    /\ callStart.queued = 2
    /\ Len(attempts) - callStart.attempted = 2
    /\ sendRes = <<"Ok", "Ok">>
    /\ rtcIn # <<>>

====
